---- MODULE Spec2Model ----
(***************************************************************************)
(* Verification model of the LLM Monitor clients:                          *)
(*   - the web dashboard            (static/app.js, class LLMMonitor)       *)
(*   - the extension popup          (popup script, class LLMMonitor)        *)
(*   - the extension service worker (chrome-extension/js/background.js)     *)
(* Each client is a single-threaded event loop: one action of the model is *)
(* one run-to-completion step (an event handler up to its next await).     *)
(***************************************************************************)
EXTENDS Integers, Sequences, FiniteSets, TLC

(***************************************************************************)
(* Bounds of the model.                                                    *)
(***************************************************************************)
MaxPulls == 1        \* loadData() calls in flight at once (dashboard)
MaxPush == 1         \* push messages in flight on the stream
MaxSockets == 2      \* WebSocket objects alive at once
MaxTimers == 2       \* pending reconnect timeouts
MaxPopPulls == 1     \* refresh() calls in flight at once (popup)
MaxLeaked == 1       \* armed pull timers whose handle was overwritten
MaxConns == 2        \* handleServerConnect() calls in flight at once
MaxDisc == 1         \* disconnectServer() calls awaiting their write
MaxProbes == 2       \* checkServerStatus() fetches in flight at once
MaxNotifs == 2       \* queue alerts counted
MaxTests == 1        \* testConnection() fetches in flight at once
MaxKills == 1        \* killRequest() fetches in flight at once, per page
MaxListLen == 11     \* length of the longest list the server answers with
MaxOverlap == 2      \* loadData() calls in flight at once where pulls overlap

RequestIds == {"r1"}
Fields == {"queue", "processing", "history", "stats"}
\* shapes of the push messages the stream delivers (full tuple and partial ones)
PushShapes == {Fields, {"stats"}, {"queue", "processing", "history"}}

VARIABLES
    \* ---- monitored server (data source of the dashboard) ----
    srv,              \* [queue, processing, history]: sequences of records
    \* ---- dashboard (static/app.js) ----
    dom,              \* what the page shows: [queue, processing, history, stats]
    pulls,            \* loadData() calls in flight, in issue order
    inbox,            \* push messages in flight on the current socket
    sock,             \* state of every WebSocket object
    ws,               \* this.ws: the current socket
    reconnectTimers,  \* pending setTimeout(connectWebSocket) callbacks
    connected,        \* status-dot has class 'connected'
    \* ---- history variables of the dashboard ----
    last,             \* per field, the value of the last delivery carrying it
    seenTerminal      \* ids an earlier snapshot showed as completed, failed or killed

VARIABLES
    \* ---- extension popup (popup script) ----
    stored,           \* chrome.storage.local['llmMonitorConfig']: <<>> or <<record>>
    config,           \* this.config: <<>> (null) or <<record>>
    pview,            \* the view shown by showView
    authError,        \* text of #auth-error while it is shown, "" while hidden
    initPc,           \* position of init() / validateCentralToken()
    isValid,          \* what validateCentralToken() returned
    refreshCalls,     \* refresh requests issued by the current validate call
    meRejected,       \* /api/auth/me answered with a non-2xx status
    hadRefresh,       \* a refresh token was held when /api/auth/me answered
    refreshResult,    \* what refreshCentralToken() returned
    loginPc,          \* position of handleLogin()
    loginForm,        \* its locals: username, password, rememberMe
    loginBtnDisabled, \* the login submit button is disabled
    loginPosts,       \* POSTs to /api/auth/login issued by the current call
    loginReq,         \* the login request in flight: <<>> or <<body>>
    regPc,            \* position of handleRegister()
    regForm,          \* its locals: username, email, password
    regBtnDisabled,   \* the register submit button is disabled
    regPosts,         \* POSTs to /api/auth/register issued by the current call
    regReq,           \* the register request in flight: <<>> or <<body>>
    conns,            \* handleServerConnect() calls in flight, in issue order
    refreshInterval,  \* this.refreshInterval holds the handle of an armed timer
    leakedTimers,     \* armed pull timers whose handle is no longer held
    popPulls,         \* refresh() calls in flight, in issue order
    popDom,           \* what the popup dashboard shows
    discPending,      \* disconnectServer() calls awaiting their saveConfig
    \* ---- history variables of the popup ----
    stopped,          \* stopRefresh() was called and startRefresh() not since
    mutatedAfterStop  \* since then a refresh() has changed what is shown

VARIABLES
    \* ---- service worker (background.js) ----
    monitorConfig,    \* the record last read from the store: <<>> or <<record>>
    checkInterval,    \* checkInterval holds the handle of an armed timer
    bgTimers,         \* armed 30 s interval timers
    probes,           \* checkServerStatus() fetches in flight, by what started them
    badge,            \* the badge text of the extension icon
    bgLoaded,         \* the start-up read of the store has answered
    notifs,           \* queue alerts created
    tests,            \* testConnection(host) calls in flight, by their host
    testResult,       \* what the last testConnection() answered: <<>> or <<result>>
    \* ---- history variables of the service worker ----
    crossings,        \* probes handled to their end that found the queue above
                      \* the threshold when the one before had not
    prevAbove         \* the last probe handled to its end found it above the threshold

VARIABLES
    \* ---- cancellation requests (both pages) ----
    kills,            \* dashboard: killRequest() fetches in flight, by request id
    popKills,         \* popup: killRequest() fetches in flight, by request id
    \* ---- history variable of the cancellation requests ----
    killLog           \* what the killRequest() that ended last wrote to the
                      \* console, "" when it wrote nothing

dashVars == <<srv, dom, pulls, inbox, sock, ws, reconnectTimers, connected,
              last, seenTerminal>>
storeVars == <<stored, config, pview, authError>>
valVars == <<initPc, isValid, refreshCalls, meRejected, hadRefresh, refreshResult>>
loginVars == <<loginPc, loginForm, loginBtnDisabled, loginPosts, loginReq>>
regVars == <<regPc, regForm, regBtnDisabled, regPosts, regReq>>
syncVars == <<conns, refreshInterval, leakedTimers, popPulls, popDom,
              discPending, stopped, mutatedAfterStop>>
popupVars == <<storeVars, valVars, loginVars, regVars, syncVars>>
testVars == <<tests, testResult>>
killVars == <<kills, popKills, killLog>>
bgVars == <<monitorConfig, checkInterval, bgTimers, probes, badge, bgLoaded, notifs,
            crossings, prevAbove, testVars>>

vars == <<dashVars, popupVars, bgVars, killVars>>

(***************************************************************************)
(* Sequence helpers.                                                       *)
(***************************************************************************)
RECURSIVE RemoveAt(_, _)
RemoveAt(s, i) ==
    IF s = <<>> THEN <<>>
    ELSE IF i = 1 THEN Tail(s)
    ELSE <<Head(s)>> \o RemoveAt(Tail(s), i - 1)

Range(s) == {s[i] : i \in DOMAIN s}
IdsOf(s) == {s[i].id : i \in DOMAIN s}
WithoutId(s, id) == SelectSeq(s, LAMBDA r : r.id # id)
CountStatus(s, st) == Cardinality({i \in DOMAIN s : s[i].status = st})

(***************************************************************************)
(* The monitored server: request records move forward only                 *)
(* (queued -> processing -> completed | failed, or -> killed).             *)
(***************************************************************************)
Rec(id, st) == [id |-> id, status |-> st]

ServerIds == IdsOf(srv.queue) \cup IdsOf(srv.processing) \cup IdsOf(srv.history)

ServerSubmit(id) ==
    /\ id \notin ServerIds
    /\ srv' = [srv EXCEPT !.queue = Append(@, Rec(id, "queued"))]
    /\ UNCHANGED <<dom, pulls, inbox, sock, ws, reconnectTimers, connected, last, seenTerminal>>
    /\ UNCHANGED <<popupVars, bgVars, killVars>>

ServerStart ==
    /\ srv.queue # <<>>
    /\ srv' = [srv EXCEPT !.queue = Tail(@),
                          !.processing = Append(@, Rec(Head(srv.queue).id, "processing"))]
    /\ UNCHANGED <<dom, pulls, inbox, sock, ws, reconnectTimers, connected, last, seenTerminal>>
    /\ UNCHANGED <<popupVars, bgVars, killVars>>

ServerFinish(id, outcome) ==
    /\ id \in IdsOf(srv.processing)
    /\ srv' = [srv EXCEPT !.processing = WithoutId(@, id),
                          !.history = <<Rec(id, outcome)>> \o @]
    /\ UNCHANGED <<dom, pulls, inbox, sock, ws, reconnectTimers, connected, last, seenTerminal>>
    /\ UNCHANGED <<popupVars, bgVars, killVars>>

ServerKill(id) ==
    /\ id \in IdsOf(srv.queue) \cup IdsOf(srv.processing)
    /\ srv' = [queue |-> WithoutId(srv.queue, id),
               processing |-> WithoutId(srv.processing, id),
               history |-> <<Rec(id, "killed")>> \o srv.history]
    /\ UNCHANGED <<dom, pulls, inbox, sock, ws, reconnectTimers, connected, last, seenTerminal>>
    /\ UNCHANGED <<popupVars, bgVars, killVars>>

\* GET /api/stats
ServerStats ==
    [queue_count |-> Len(srv.queue),
     processing_count |-> Len(srv.processing),
     completed_count |-> CountStatus(srv.history, "completed"),
     failed_count |-> CountStatus(srv.history, "failed"),
     killed_count |-> CountStatus(srv.history, "killed")]

\* GET /api/queue, /api/processing, /api/history, /api/stats
Resource(f) == IF f = "stats" THEN ServerStats ELSE srv[f]

ZeroStats ==
    [queue_count |-> 0, processing_count |-> 0, completed_count |-> 0,
     failed_count |-> 0, killed_count |-> 0]

(***************************************************************************)
(* Dashboard: updateDashboard and the renderers.                           *)
(***************************************************************************)
\* the four stat counters as written into the page
StatsText(stats) ==
    <<stats.queue_count, stats.processing_count, stats.completed_count,
      stats.failed_count + stats.killed_count>>

Carries(data, f) == f \in DOMAIN data

\* updateDashboard(data): stats only `if (data.stats)`, the lists from
\* `data.queue || []`, `data.processing || []`, `data.history || []`
updateDashboard(d, data) ==
    [stats |-> IF Carries(data, "stats") THEN StatsText(data.stats) ELSE d.stats,
     queue |-> IF Carries(data, "queue") THEN data.queue ELSE <<>>,
     processing |-> IF Carries(data, "processing") THEN data.processing ELSE <<>>,
     history |-> IF Carries(data, "history") THEN data.history ELSE <<>>]

\* history: what the last delivery carrying each field carried
Delivered(l, data) ==
    [stats |-> IF Carries(data, "stats") THEN StatsText(data.stats) ELSE l.stats,
     queue |-> IF Carries(data, "queue") THEN data.queue ELSE l.queue,
     processing |-> IF Carries(data, "processing") THEN data.processing ELSE l.processing,
     history |-> IF Carries(data, "history") THEN data.history ELSE l.history]

Shown(d) == Range(d.queue) \cup Range(d.processing) \cup Range(d.history)
TerminalStatus == {"completed", "failed", "killed"}
ShownTerminal(d) == {r.id : r \in {x \in Shown(d) : x.status \in TerminalStatus}}
ShownLive(d) == {r.id : r \in {x \in Shown(d) : x.status \in {"queued", "processing"}}}

\* one delivery (push message or completed pull) applied to the page
Deliver(data) ==
    /\ dom' = updateDashboard(dom, data)
    /\ last' = Delivered(last, data)
    /\ seenTerminal' = seenTerminal \cup ShownTerminal(dom)

(***************************************************************************)
(* Dashboard: the pull channel, loadData().                                *)
(***************************************************************************)
\* got: the fetches answered; bad: those answered with a JSON body that is
\* an object where a list is expected (the body of an error answer: fetch
\* resolves on any status and loadData does not look at response.ok)
\* stale (history): a pull issued after this one has completed already
NewPull == [got |-> {}, bad |-> {}, stale |-> FALSE,
            data |-> [queue |-> <<>>, processing |-> <<>>, history |-> <<>>,
                      stats |-> ZeroStats]]

\* a faulty variant: the timer pulls only while the stream is connected
LoadData_whenConnected ==
    /\ connected
    /\ Len(pulls) < MaxPulls
    /\ pulls' = Append(pulls, NewPull)
    /\ UNCHANGED <<srv, dom, inbox, sock, ws, reconnectTimers, connected, last, seenTerminal>>
    /\ UNCHANGED <<popupVars, bgVars, killVars>>

\* setInterval(() => this.loadData(), 2000) and the call in init()
LoadData ==
    /\ Len(pulls) < MaxPulls
    /\ pulls' = Append(pulls, NewPull)
    /\ UNCHANGED <<srv, dom, inbox, sock, ws, reconnectTimers, connected, last, seenTerminal>>
    /\ UNCHANGED <<popupVars, bgVars, killVars>>

\* the 2 s timer fires while an earlier loadData() still awaits its fetches
LoadDataOverlapping ==
    /\ pulls # <<>>
    /\ Len(pulls) < MaxOverlap
    /\ pulls' = Append(pulls, NewPull)
    /\ UNCHANGED <<srv, dom, inbox, sock, ws, reconnectTimers, connected, last, seenTerminal>>
    /\ UNCHANGED <<popupVars, bgVars, killVars>>

\* the server answers one of the four fetches of a pull
FetchServed(i, f) ==
    /\ i \in DOMAIN pulls
    /\ f \notin pulls[i].got
    /\ pulls' = [pulls EXCEPT ![i].got = @ \cup {f},
                              ![i].data = [@ EXCEPT ![f] = Resource(f)]]
    /\ UNCHANGED <<srv, dom, inbox, sock, ws, reconnectTimers, connected, last, seenTerminal>>
    /\ UNCHANGED <<popupVars, bgVars, killVars>>

\* one fetch rejects: Promise.all rejects, the catch logs, nothing is rendered
FetchFailed(i) ==
    /\ i \in DOMAIN pulls
    /\ pulls[i].got # Fields
    /\ pulls' = RemoveAt(pulls, i)
    /\ UNCHANGED <<srv, dom, inbox, sock, ws, reconnectTimers, connected, last, seenTerminal>>
    /\ UNCHANGED <<popupVars, bgVars, killVars>>

\* the server answers a list fetch of a pull with an object that is no list
FetchMalformed(i, f) ==
    /\ i \in DOMAIN pulls
    /\ f \in Fields \ {"stats"}
    /\ f \notin pulls[i].got
    /\ pulls' = [pulls EXCEPT ![i].got = @ \cup {f}, ![i].bad = @ \cup {f}]
    /\ UNCHANGED <<srv, dom, inbox, sock, ws, reconnectTimers, connected, last, seenTerminal>>
    /\ UNCHANGED <<popupVars, bgVars, killVars>>

\* updateDashboard writes the stats, then calls renderQueue, renderProcessing
\* and renderHistory; a renderer handed an object that is no list throws at
\* requests.map, which ends updateDashboard there
RenderOrder == <<"stats", "queue", "processing", "history">>
Rendered(bad) ==
    {RenderOrder[k] : k \in {j \in DOMAIN RenderOrder :
                                \A m \in 1 .. j : RenderOrder[m] \notin bad}}

\* the pulls issued before pull i are marked: a later pull has completed
MarkStale(ps, i) ==
    [k \in DOMAIN ps |-> IF k < i THEN [ps[k] EXCEPT !.stale = TRUE] ELSE ps[k]]

\* Promise.all resolves: this.updateDashboard({queue, processing, history, stats});
\* what a renderer throws is caught and logged by loadData
PullCompleted(i) ==
    /\ i \in DOMAIN pulls
    /\ pulls[i].got = Fields
    /\ dom' = [f \in Fields |-> IF f \in Rendered(pulls[i].bad)
                                THEN updateDashboard(dom, pulls[i].data)[f] ELSE dom[f]]
    /\ last' = [f \in Fields |-> IF f \in Rendered(pulls[i].bad)
                                 THEN Delivered(last, pulls[i].data)[f] ELSE last[f]]
    /\ seenTerminal' = seenTerminal \cup ShownTerminal(dom)
    /\ pulls' = RemoveAt(MarkStale(pulls, i), i)
    /\ UNCHANGED <<srv, inbox, sock, ws, reconnectTimers, connected>>
    /\ UNCHANGED <<popupVars, bgVars, killVars>>

(***************************************************************************)
(* Dashboard: the push channel, connectWebSocket().                        *)
(***************************************************************************)
Sockets == 1 .. MaxSockets
LiveStates == {"connecting", "open", "errored"}
LiveSockets == {s \in Sockets : sock[s] \in LiveStates}
FreeSockets == Sockets \ LiveSockets
NextFree == CHOOSE s \in FreeSockets : \A t \in FreeSockets : s <= t

\* this.ws = new WebSocket(wsUrl) with its four handlers
connectWebSocket ==
    /\ FreeSockets # {}
    /\ sock' = [sock EXCEPT ![NextFree] = "connecting"]
    /\ ws' = NextFree

\* ws.onopen: setConnectionStatus(true)
WsOpen(s) ==
    /\ sock[s] = "connecting"
    /\ sock' = [sock EXCEPT ![s] = "open"]
    /\ connected' = TRUE
    /\ UNCHANGED <<srv, dom, pulls, inbox, ws, reconnectTimers, last, seenTerminal>>
    /\ UNCHANGED <<popupVars, bgVars, killVars>>

\* a faulty variant: the error handler schedules a reconnect of its own
WsError_reconnects(s) ==
    /\ sock[s] \in {"connecting", "open"}
    /\ reconnectTimers < MaxTimers
    /\ sock' = [sock EXCEPT ![s] = "errored"]
    /\ reconnectTimers' = reconnectTimers + 1
    /\ UNCHANGED <<srv, dom, pulls, inbox, ws, connected, last, seenTerminal>>
    /\ UNCHANGED <<popupVars, bgVars, killVars>>

\* ws.onerror: console.error only; the browser closes the socket afterwards
WsError(s) ==
    /\ sock[s] \in {"connecting", "open"}
    /\ sock' = [sock EXCEPT ![s] = "errored"]
    /\ UNCHANGED <<srv, dom, pulls, inbox, ws, reconnectTimers, connected, last, seenTerminal>>
    /\ UNCHANGED <<popupVars, bgVars, killVars>>

\* a faulty variant: the close handler gives the stream up
WsClose_noRetry(s) ==
    /\ sock[s] \in LiveStates
    /\ sock' = [sock EXCEPT ![s] = "closed"]
    /\ connected' = FALSE
    /\ inbox' = IF s = ws THEN <<>> ELSE inbox
    /\ UNCHANGED <<srv, dom, pulls, ws, reconnectTimers, last, seenTerminal>>
    /\ UNCHANGED <<popupVars, bgVars, killVars>>

\* ws.onclose: setConnectionStatus(false); setTimeout(connectWebSocket, 3000)
WsClose(s) ==
    /\ sock[s] \in LiveStates
    /\ reconnectTimers < MaxTimers
    /\ sock' = [sock EXCEPT ![s] = "closed"]
    /\ connected' = FALSE
    /\ reconnectTimers' = reconnectTimers + 1
    /\ inbox' = IF s = ws THEN <<>> ELSE inbox
    /\ UNCHANGED <<srv, dom, pulls, ws, last, seenTerminal>>
    /\ UNCHANGED <<popupVars, bgVars, killVars>>

\* the reconnect timeout fires: () => this.connectWebSocket()
ReconnectFire ==
    /\ reconnectTimers > 0
    /\ reconnectTimers' = reconnectTimers - 1
    /\ connectWebSocket
    /\ UNCHANGED <<srv, dom, pulls, inbox, connected, last, seenTerminal>>
    /\ UNCHANGED <<popupVars, bgVars, killVars>>

\* the server sends a push message on the open stream
ServerPush(shape) ==
    /\ sock[ws] = "open"
    /\ Len(inbox) < MaxPush
    /\ inbox' = Append(inbox, [f \in shape |-> Resource(f)])
    /\ UNCHANGED <<srv, dom, pulls, sock, ws, reconnectTimers, connected, last, seenTerminal>>
    /\ UNCHANGED <<popupVars, bgVars, killVars>>

\* ws.onmessage: this.updateDashboard(JSON.parse(event.data))
WsMessage ==
    /\ inbox # <<>>
    /\ sock[ws] = "open"
    /\ Deliver(Head(inbox))
    /\ inbox' = Tail(inbox)
    /\ UNCHANGED <<srv, pulls, sock, ws, reconnectTimers, connected>>
    /\ UNCHANGED <<popupVars, bgVars, killVars>>

(***************************************************************************)
(* Popup: strings that the code converts are sequences of characters.      *)
(***************************************************************************)
UpperChars == {"A", "B", "C", "D"}
DigitChars == {"1", "2", "3", "4"}
LowerOf == [c \in UpperChars |->
              CASE c = "A" -> "a" [] c = "B" -> "b" [] c = "C" -> "c" [] OTHER -> "d"]

\* String.prototype.toLowerCase
toLowerCase(s) == [i \in DOMAIN s |-> IF s[i] \in UpperChars THEN LowerOf[s[i]] ELSE s[i]]

\* String.prototype.trim
RECURSIVE TrimLeft(_)
TrimLeft(s) == IF s # <<>> /\ Head(s) = " " THEN TrimLeft(Tail(s)) ELSE s
RECURSIVE TrimRight(_)
TrimRight(s) ==
    IF s # <<>> /\ s[Len(s)] = " " THEN TrimRight(SubSeq(s, 1, Len(s) - 1)) ELSE s
trim(s) == TrimRight(TrimLeft(s))

\* a faulty variant: the password leaves the popup as typed
hashPassword_plain(password, username) == password

\* hashPassword(password, username): the SHA-256 hex digest of
\* salt + username.toLowerCase() + ':' + password.  The digest is kept
\* symbolic: the marker "sha256" followed by the digested text, so that two
\* digests are equal exactly when the digested texts are.
hashPassword(password, username) ==
    <<"sha256", "LLM_MONITOR_2024_">> \o toLowerCase(username) \o <<":">> \o password

\* values typed into the forms
Abcd1234 == <<"A", "b", "c", "d", "1", "2", "3", "4">>
RawUsernames == {<<"A", "l">>, <<"a", "l">>, <<"a", "l", " ">>}
LoginPasswords == {Abcd1234, <<"s", "h", "o", "r", "t">>}
RegPasswords ==
    {Abcd1234,
     <<"s", "h", "o", "r", "t">>,
     <<"A", "b", "c", "1", "2", "3", "4">>,
     <<"a", "b", "c", "d", "1", "2", "3", "4">>,
     <<"A", "b", "c", "d", "e", "f", "g", "h">>}
Email == "al@example.org"

(***************************************************************************)
(* Popup: the configuration record and its persistence.                    *)
(* A field that is undefined in the JavaScript object holds "".            *)
(***************************************************************************)
Null == <<>>

Session(token, refreshToken, username, email, rememberMe) ==
    [centralToken |-> token, centralRefresh |-> refreshToken, username |-> username,
     email |-> email, rememberMe |-> rememberMe, serverHost |-> <<>>]

\* records a previous run of the popup has left in the store
StoredAtStart ==
    {Null,
     <<Session("t0", "f0", <<"a", "l">>, Email, "true")>>,
     <<Session("t0", "", <<"a", "l">>, Email, "false")>>,
     <<[Session("t0", "f0", <<"a", "l">>, Email, "true") EXCEPT
          !.serverHost = <<"http://", "10.0.0.1", ":", "8080">>]>>}

HasToken(c) == c # Null /\ c[1].centralToken # ""
HasRefresh(c) == c # Null /\ c[1].centralRefresh # ""
HasServer(c) == c # Null /\ c[1].serverHost # <<>>

(***************************************************************************)
(* Popup: the pull channel record.                                         *)
(***************************************************************************)
PopFields == {"services", "stats", "queue", "processing"}
ServicesList == <<[name |-> "ollama", status |-> "running"]>>
NewPopPull == [got |-> {},
               data |-> [services |-> <<>>, stats |-> ZeroStats, queue |-> <<>>,
                         processing |-> <<>>]]

(***************************************************************************)
(* Popup: init(), validateCentralToken(), refreshCentralToken().           *)
(***************************************************************************)
\* refresh() up to its await: returns at once without a server, else issues
\* the four fetchData() calls (a call beyond MaxPopPulls is one whose
\* fetches reject at once)
refresh(p) ==
    IF HasServer(config) /\ Len(p) < MaxPopPulls THEN Append(p, NewPopPull) ELSE p

SyncFrame == UNCHANGED <<refreshInterval, leakedTimers, popPulls, stopped, mutatedAfterStop>>

\* startRefresh(): this.refresh(); this.refreshInterval = setInterval(..., 2000)
startRefresh ==
    /\ refreshInterval => leakedTimers < MaxLeaked
    /\ popPulls' = refresh(popPulls)
    /\ refreshInterval' = TRUE
    /\ leakedTimers' = IF refreshInterval THEN leakedTimers + 1 ELSE leakedTimers
    /\ stopped' = FALSE
    /\ mutatedAfterStop' = FALSE

\* stopRefresh(): clearInterval(this.refreshInterval); this.refreshInterval = null
stopRefresh ==
    /\ refreshInterval' = FALSE
    /\ stopped' = TRUE
    /\ mutatedAfterStop' = FALSE
    /\ UNCHANGED <<leakedTimers, popPulls>>

\* a faulty variant: a stored server opens the dashboard whatever the
\* session check returned
InitContinues_anySession(valid, c) ==
    /\ isValid' = valid
    /\ initPc' = "done"
    /\ pview' = IF HasServer(c) THEN "dashboard-view"
                ELSE IF valid THEN "server-view" ELSE "auth-view"
    /\ IF HasServer(c) THEN startRefresh ELSE SyncFrame

\* the tail of init() once validateCentralToken() has returned
InitContinues(valid, c) ==
    /\ isValid' = valid
    /\ initPc' = "done"
    /\ pview' = IF ~valid THEN "auth-view"
                ELSE IF HasServer(c) THEN "dashboard-view" ELSE "server-view"
    /\ IF valid /\ HasServer(c) THEN startRefresh ELSE SyncFrame

\* this.config = await this.loadConfig(); then the session check of init()
PopupLoaded ==
    /\ initPc = "loadConfig"
    /\ config' = stored
    /\ IF HasToken(stored)
       THEN /\ initPc' = "validateMe"       \* fetch /api/auth/me, 5 s timeout
            /\ UNCHANGED <<pview, isValid>>
       ELSE /\ initPc' = "done"
            /\ pview' = "auth-view"
            /\ UNCHANGED isValid
    /\ UNCHANGED <<stored, authError, refreshCalls, meRejected, hadRefresh, refreshResult>>
    /\ UNCHANGED <<loginVars, regVars, syncVars>>
    /\ UNCHANGED <<dashVars, bgVars, killVars>>

\* /api/auth/me answers 2xx: return true
MeAccepted ==
    /\ initPc = "validateMe"
    /\ InitContinues(TRUE, config)
    /\ UNCHANGED <<stored, config, authError, refreshCalls, meRejected, hadRefresh, refreshResult>>
    /\ UNCHANGED <<loginVars, regVars, conns, popDom, discPending>>
    /\ UNCHANGED <<dashVars, bgVars, killVars>>

\* /api/auth/me answers non-2xx: one refresh when a refresh token is held
MeRejected ==
    /\ initPc = "validateMe"
    /\ meRejected' = TRUE
    /\ hadRefresh' = HasRefresh(config)
    /\ IF HasRefresh(config)
       THEN /\ initPc' = "validateRefresh"  \* fetch /api/auth/refresh
            /\ refreshCalls' = refreshCalls + 1
            /\ UNCHANGED <<pview, isValid>>
            /\ SyncFrame
       ELSE /\ InitContinues(FALSE, config)
            /\ UNCHANGED refreshCalls
    /\ UNCHANGED <<stored, config, authError, refreshResult>>
    /\ UNCHANGED <<loginVars, regVars, conns, popDom, discPending>>
    /\ UNCHANGED <<dashVars, bgVars, killVars>>

\* the fetch of /api/auth/me rejects (network error, timeout): catch, return false
MeFailed ==
    /\ initPc = "validateMe"
    /\ InitContinues(FALSE, config)
    /\ UNCHANGED <<stored, config, authError, refreshCalls, meRejected, hadRefresh, refreshResult>>
    /\ UNCHANGED <<loginVars, regVars, conns, popDom, discPending>>
    /\ UNCHANGED <<dashVars, bgVars, killVars>>

\* a faulty variant: a failed refresh is tried again
RefreshFailed_retries ==
    /\ initPc = "validateRefresh"
    /\ refreshCalls < 3
    /\ refreshCalls' = refreshCalls + 1
    /\ UNCHANGED <<stored, config, pview, authError, initPc, isValid, meRejected,
                   hadRefresh, refreshResult>>
    /\ UNCHANGED <<loginVars, regVars, syncVars>>
    /\ UNCHANGED <<dashVars, bgVars, killVars>>

\* a faulty variant: a failed refresh drops the tokens it could not renew
RefreshFailed_clears ==
    /\ initPc = "validateRefresh"
    /\ refreshResult' = "false"
    /\ InitContinues(FALSE, config)
    /\ config' = IF config = Null THEN Null
                 ELSE <<[config[1] EXCEPT !.centralToken = "", !.centralRefresh = ""]>>
    /\ UNCHANGED <<stored, authError, refreshCalls, meRejected, hadRefresh>>
    /\ UNCHANGED <<loginVars, regVars, conns, popDom, discPending>>
    /\ UNCHANGED <<dashVars, bgVars, killVars>>

\* /api/auth/refresh answers non-2xx, its body cannot be read, or the fetch
\* rejects: refreshCentralToken() returns false, and so does validate
RefreshFailed ==
    /\ initPc = "validateRefresh"
    /\ refreshResult' = "false"
    /\ InitContinues(FALSE, config)
    /\ UNCHANGED <<stored, config, authError, refreshCalls, meRejected, hadRefresh>>
    /\ UNCHANGED <<loginVars, regVars, conns, popDom, discPending>>
    /\ UNCHANGED <<dashVars, bgVars, killVars>>

\* /api/auth/refresh answers 2xx with a new pair: both tokens are replaced
\* and saveConfig(this.config) is called
RefreshGranted(access, refreshToken) ==
    /\ initPc = "validateRefresh"
    /\ config # Null
    /\ config' = <<[config[1] EXCEPT !.centralToken = access, !.centralRefresh = refreshToken]>>
    /\ stored' = config'
    /\ initPc' = "validateSave"
    /\ UNCHANGED <<pview, authError, isValid, refreshCalls, meRejected, hadRefresh, refreshResult>>
    /\ UNCHANGED <<loginVars, regVars, syncVars>>
    /\ UNCHANGED <<dashVars, bgVars, killVars>>

\* the write is acknowledged: refreshCentralToken() returns true
RefreshSaved ==
    /\ initPc = "validateSave"
    /\ refreshResult' = "true"
    /\ InitContinues(TRUE, config)
    /\ UNCHANGED <<stored, config, authError, refreshCalls, meRejected, hadRefresh>>
    /\ UNCHANGED <<loginVars, regVars, conns, popDom, discPending>>
    /\ UNCHANGED <<dashVars, bgVars, killVars>>

(***************************************************************************)
(* Popup: handleLogin().                                                   *)
(***************************************************************************)
NoForm == [username |-> <<>>, password |-> <<>>, rememberMe |-> ""]

\* submit of #login-form up to `await hashPassword(password, username)`
LoginSubmit(rawUsername, password, rememberMe) ==
    /\ pview = "auth-view"
    /\ ~loginBtnDisabled
    /\ loginPc \in {"idle", "returned"}
    /\ loginForm' = [username |-> trim(rawUsername), password |-> password,
                     rememberMe |-> rememberMe]
    /\ authError' = ""
    /\ loginBtnDisabled' = TRUE
    /\ loginPosts' = 0
    /\ loginPc' = "hash"
    /\ UNCHANGED <<stored, config, pview, loginReq>>
    /\ UNCHANGED <<valVars, regVars, syncVars>>
    /\ UNCHANGED <<dashVars, bgVars, killVars>>

\* the digest is ready: fetch(`${CENTRAL_API}/api/auth/login`, {method: 'POST', body})
LoginHashed ==
    /\ loginPc = "hash"
    /\ loginReq' = <<[username |-> loginForm.username,
                      password_hash |-> hashPassword(loginForm.password, loginForm.username),
                      remember_me |-> loginForm.rememberMe]>>
    /\ loginPosts' = loginPosts + 1
    /\ loginPc' = "fetch"
    /\ UNCHANGED <<loginForm, loginBtnDisabled>>
    /\ UNCHANGED <<storeVars, valVars, regVars, syncVars>>
    /\ UNCHANGED <<dashVars, bgVars, killVars>>

\* a faulty variant: the session is built in memory and never written
LoginGranted_unsaved(access, refreshToken) ==
    /\ loginPc = "fetch"
    /\ config' = <<Session(access, refreshToken, loginReq[1].username, Email, loginForm.rememberMe)>>
    /\ loginReq' = <<>>
    /\ loginPc' = "save"
    /\ UNCHANGED <<stored, pview, authError, loginForm, loginBtnDisabled, loginPosts>>
    /\ UNCHANGED <<valVars, regVars, syncVars>>
    /\ UNCHANGED <<dashVars, bgVars, killVars>>

\* 2xx with a readable body: the session is built and saveConfig is called
LoginGranted(access, refreshToken) ==
    /\ loginPc = "fetch"
    /\ config' = <<Session(access, refreshToken, loginReq[1].username, Email, loginForm.rememberMe)>>
    /\ stored' = config'
    /\ loginReq' = <<>>
    /\ loginPc' = "save"
    /\ UNCHANGED <<pview, authError, loginForm, loginBtnDisabled, loginPosts>>
    /\ UNCHANGED <<valVars, regVars, syncVars>>
    /\ UNCHANGED <<dashVars, bgVars, killVars>>

\* the write is acknowledged: showView('server-view'); finally: button restored
LoginSaved ==
    /\ loginPc = "save"
    /\ pview' = "server-view"
    /\ loginBtnDisabled' = FALSE
    /\ loginPc' = "returned"
    /\ UNCHANGED <<stored, config, authError, loginForm, loginPosts, loginReq>>
    /\ UNCHANGED <<valVars, regVars, syncVars>>
    /\ UNCHANGED <<dashVars, bgVars, killVars>>

\* a faulty variant: the button is restored on the success path only
LoginFailed_keepsDisabled(message) ==
    /\ loginPc = "fetch"
    /\ authError' = message
    /\ loginReq' = <<>>
    /\ loginPc' = "returned"
    /\ UNCHANGED <<stored, config, pview, loginForm, loginPosts, loginBtnDisabled>>
    /\ UNCHANGED <<valVars, regVars, syncVars>>
    /\ UNCHANGED <<dashVars, bgVars, killVars>>

\* the fetch rejects, the body cannot be read, or the status is not 2xx:
\* catch shows the message; finally: button restored
LoginFailed(message) ==
    /\ loginPc = "fetch"
    /\ authError' = message
    /\ loginReq' = <<>>
    /\ loginBtnDisabled' = FALSE
    /\ loginPc' = "returned"
    /\ UNCHANGED <<stored, config, pview, loginForm, loginPosts>>
    /\ UNCHANGED <<valVars, regVars, syncVars>>
    /\ UNCHANGED <<dashVars, bgVars, killVars>>

LoginFailures == {"Failed to fetch", "Echec de connexion", "Unexpected token"}

(***************************************************************************)
(* Popup: handleRegister().                                                *)
(***************************************************************************)
MinPasswordLength == 8
MsgMismatch == "Les mots de passe ne correspondent pas"
MsgTooShort == "Mot de passe: minimum 8 caracteres"
MsgCharset == "Mot de passe: 1 majuscule et 1 chiffre requis"

HasUpper(s) == \E i \in DOMAIN s : s[i] \in UpperChars
HasDigit(s) == \E i \in DOMAIN s : s[i] \in DigitChars

\* a faulty variant: the length check is left out
RegisterViolation_noLength(password, password2) ==
    IF password # password2 THEN MsgMismatch
    ELSE IF ~HasUpper(password) \/ ~HasDigit(password) THEN MsgCharset
    ELSE ""

\* the client-side validation of handleRegister: the message of the first
\* check that fails, "" when all pass
RegisterViolation(password, password2) ==
    IF password # password2 THEN MsgMismatch
    ELSE IF Len(password) < MinPasswordLength THEN MsgTooShort
    ELSE IF ~HasUpper(password) \/ ~HasDigit(password) THEN MsgCharset
    ELSE ""

\* submit of #register-form: validation, then up to `await hashPassword(...)`
RegisterSubmit(rawUsername, password, password2) ==
    /\ pview = "auth-view"
    /\ ~regBtnDisabled
    /\ regPc \in {"idle", "returned"}
    /\ regPosts' = 0
    /\ IF RegisterViolation(password, password2) # ""
       THEN /\ authError' = RegisterViolation(password, password2)
            /\ regPc' = "returned"
            /\ UNCHANGED <<regForm, regBtnDisabled>>
       ELSE /\ authError' = ""
            /\ regForm' = [username |-> trim(rawUsername), email |-> Email,
                           password |-> password]
            /\ regBtnDisabled' = TRUE
            /\ regPc' = "hash"
    /\ UNCHANGED <<stored, config, pview, regReq>>
    /\ UNCHANGED <<valVars, loginVars, syncVars>>
    /\ UNCHANGED <<dashVars, bgVars, killVars>>

\* the digest is ready: fetch(`${CENTRAL_API}/api/auth/register`, {method: 'POST', body})
RegisterHashed ==
    /\ regPc = "hash"
    /\ regReq' = <<[username |-> regForm.username, email |-> regForm.email,
                    password_hash |-> hashPassword(regForm.password, regForm.username)]>>
    /\ regPosts' = regPosts + 1
    /\ regPc' = "fetch"
    /\ UNCHANGED <<regForm, regBtnDisabled>>
    /\ UNCHANGED <<storeVars, valVars, loginVars, syncVars>>
    /\ UNCHANGED <<dashVars, bgVars, killVars>>

\* 2xx with a readable body: the session is built (no rememberMe) and saved
RegisterGranted(access, refreshToken) ==
    /\ regPc = "fetch"
    /\ config' = <<Session(access, refreshToken, regReq[1].username, regReq[1].email, "")>>
    /\ stored' = config'
    /\ regReq' = <<>>
    /\ regPc' = "save"
    /\ UNCHANGED <<pview, authError, regForm, regBtnDisabled, regPosts>>
    /\ UNCHANGED <<valVars, loginVars, syncVars>>
    /\ UNCHANGED <<dashVars, bgVars, killVars>>

\* the write is acknowledged: showView('server-view'); finally: button restored
RegisterSaved ==
    /\ regPc = "save"
    /\ pview' = "server-view"
    /\ regBtnDisabled' = FALSE
    /\ regPc' = "returned"
    /\ UNCHANGED <<stored, config, authError, regForm, regPosts, regReq>>
    /\ UNCHANGED <<valVars, loginVars, syncVars>>
    /\ UNCHANGED <<dashVars, bgVars, killVars>>

\* the fetch rejects, the body cannot be read, or the status is not 2xx
\* a faulty variant: a failed registration drops the session and moves on
\* to the server view
RegisterFailed_proceeds(message) ==
    /\ regPc = "fetch"
    /\ authError' = message
    /\ regReq' = <<>>
    /\ regBtnDisabled' = FALSE
    /\ regPc' = "returned"
    /\ config' = Null
    /\ pview' = "server-view"
    /\ UNCHANGED <<stored, regForm, regPosts>>
    /\ UNCHANGED <<valVars, loginVars, syncVars>>
    /\ UNCHANGED <<dashVars, bgVars, killVars>>

RegisterFailed(message) ==
    /\ regPc = "fetch"
    /\ authError' = message
    /\ regReq' = <<>>
    /\ regBtnDisabled' = FALSE
    /\ regPc' = "returned"
    /\ UNCHANGED <<stored, config, pview, regForm, regPosts>>
    /\ UNCHANGED <<valVars, loginVars, syncVars>>
    /\ UNCHANGED <<dashVars, bgVars, killVars>>

RegisterFailures == {"Failed to fetch", "Echec inscription"}

(***************************************************************************)
(* Popup: logout().                                                        *)
(***************************************************************************)
\* #btn-logout (server view): stopRefresh(); this.config = null;
\* chrome.storage.local.remove(['llmMonitorConfig']); showView('auth-view')
Logout ==
    /\ pview = "server-view"
    /\ stopRefresh
    /\ config' = Null
    /\ stored' = Null
    /\ pview' = "auth-view"
    /\ UNCHANGED <<authError, conns, popDom, discPending>>
    /\ UNCHANGED <<valVars, loginVars, regVars>>
    /\ UNCHANGED <<dashVars, bgVars, killVars>>

(***************************************************************************)
(* Popup: handleServerConnect() and disconnectServer().                    *)
(***************************************************************************)
RawHosts == {<<>>, <<" ">>, <<"10.0.0.1">>, <<"http://", "10.0.0.1">>}

startsWithScheme(s) == s # <<>> /\ Head(s) \in {"http://", "https://"}

\* serverUrl: 'http://' is put in front when no scheme is given, ':' + port behind
ServerUrl(host, port) ==
    (IF startsWithScheme(host) THEN host ELSE <<"http://">> \o host)
        \o <<":", IF port = "" THEN "8080" ELSE port>>

\* submit of #server-form up to the fetch of `${serverUrl}/api/stats` (5 s timeout)
ServerConnectSubmit(rawHost, port) ==
    /\ pview = "server-view"
    /\ IF trim(rawHost) = <<>>
       THEN UNCHANGED conns             \* 'Adresse requise' is shown, no fetch
       ELSE /\ Len(conns) < MaxConns
            /\ conns' = Append(conns, [url |-> ServerUrl(trim(rawHost), port), pc |-> "fetch"])
    /\ UNCHANGED <<refreshInterval, leakedTimers, popPulls, popDom, stopped, mutatedAfterStop,
                   discPending>>
    /\ UNCHANGED <<storeVars, valVars, loginVars, regVars>>
    /\ UNCHANGED <<dashVars, bgVars, killVars>>

\* the probe answers 2xx: this.config.serverHost = serverUrl; saveConfig
\* (with this.config null the assignment throws and the catch shows the error)
ServerConnectOk(i) ==
    /\ i \in DOMAIN conns
    /\ conns[i].pc = "fetch"
    /\ IF config = Null
       THEN /\ conns' = RemoveAt(conns, i)
            /\ UNCHANGED <<config, stored>>
       ELSE /\ config' = <<[config[1] EXCEPT !.serverHost = conns[i].url]>>
            /\ stored' = config'
            /\ conns' = [conns EXCEPT ![i].pc = "save"]
    /\ UNCHANGED <<pview, authError>>
    /\ UNCHANGED <<refreshInterval, leakedTimers, popPulls, popDom, stopped, mutatedAfterStop,
                   discPending>>
    /\ UNCHANGED <<valVars, loginVars, regVars>>
    /\ UNCHANGED <<dashVars, bgVars, killVars>>

\* the write is acknowledged: showView('dashboard-view'); this.startRefresh()
ServerConnectSaved(i) ==
    /\ i \in DOMAIN conns
    /\ conns[i].pc = "save"
    /\ pview' = "dashboard-view"
    /\ startRefresh
    /\ conns' = RemoveAt(conns, i)
    /\ UNCHANGED <<stored, config, authError, popDom, discPending>>
    /\ UNCHANGED <<valVars, loginVars, regVars>>
    /\ UNCHANGED <<dashVars, bgVars, killVars>>

\* the probe answers non-2xx, times out or rejects: the catch shows the error
ServerConnectFailed(i) ==
    /\ i \in DOMAIN conns
    /\ conns[i].pc = "fetch"
    /\ conns' = RemoveAt(conns, i)
    /\ UNCHANGED <<refreshInterval, leakedTimers, popPulls, popDom, stopped, mutatedAfterStop,
                   discPending>>
    /\ UNCHANGED <<storeVars, valVars, loginVars, regVars>>
    /\ UNCHANGED <<dashVars, bgVars, killVars>>

\* #btn-disconnect (dashboard view): stopRefresh(); delete this.config.serverHost;
\* saveConfig up to its await
Disconnect ==
    /\ pview = "dashboard-view"
    /\ discPending < MaxDisc
    /\ stopRefresh
    /\ IF config = Null
       THEN /\ pview' = "server-view"
            /\ UNCHANGED <<config, stored, discPending>>
       ELSE /\ config' = <<[config[1] EXCEPT !.serverHost = <<>>]>>
            /\ stored' = config'
            /\ discPending' = discPending + 1
            /\ UNCHANGED pview
    /\ UNCHANGED <<authError, conns, popDom>>
    /\ UNCHANGED <<valVars, loginVars, regVars>>
    /\ UNCHANGED <<dashVars, bgVars, killVars>>

\* the write is acknowledged: showView('server-view'); updateUserInfo()
DisconnectSaved ==
    /\ discPending > 0
    /\ discPending' = discPending - 1
    /\ pview' = "server-view"
    /\ UNCHANGED <<stored, config, authError>>
    /\ UNCHANGED <<conns, refreshInterval, leakedTimers, popPulls, popDom,
                   stopped, mutatedAfterStop>>
    /\ UNCHANGED <<valVars, loginVars, regVars>>
    /\ UNCHANGED <<dashVars, bgVars, killVars>>

(***************************************************************************)
(* Popup: refresh(), fetchData() and the renderers.                        *)
(***************************************************************************)
QueueCap == 10

PopFrame == UNCHANGED <<conns, refreshInterval, leakedTimers, stopped,
                        discPending>>

\* an armed setInterval(() => this.refresh(), 2000) fires
PopTimerFired ==
    /\ refreshInterval \/ leakedTimers > 0
    /\ popPulls' = refresh(popPulls)
    /\ UNCHANGED <<popDom, mutatedAfterStop>>
    /\ PopFrame
    /\ UNCHANGED <<storeVars, valVars, loginVars, regVars>>
    /\ UNCHANGED <<dashVars, bgVars, killVars>>

\* GET /api/services, /api/stats, /api/queue, /api/processing
PopResource(f) ==
    IF f = "services" THEN ServicesList
    ELSE IF f = "stats" THEN ServerStats ELSE srv[f]

\* the server answers one fetchData() of a refresh
PopFetchServed(i, f) ==
    /\ i \in DOMAIN popPulls
    /\ f \notin popPulls[i].got
    /\ popPulls' = [popPulls EXCEPT ![i].got = @ \cup {f},
                                    ![i].data = [@ EXCEPT ![f] = PopResource(f)]]
    /\ UNCHANGED <<popDom, mutatedAfterStop>>
    /\ PopFrame
    /\ UNCHANGED <<storeVars, valVars, loginVars, regVars>>
    /\ UNCHANGED <<dashVars, bgVars, killVars>>

\* one fetchData() rejects: Promise.all rejects, the catch logs
PopFetchFailed(i) ==
    /\ i \in DOMAIN popPulls
    /\ popPulls[i].got # PopFields
    /\ popPulls' = RemoveAt(popPulls, i)
    /\ UNCHANGED <<popDom, mutatedAfterStop>>
    /\ PopFrame
    /\ UNCHANGED <<storeVars, valVars, loginVars, regVars>>
    /\ UNCHANGED <<dashVars, bgVars, killVars>>

\* a faulty variant: the queue is shown in reverse order and capped afterwards
PopRender_reversed(data) ==
    [services |-> data.services,
     stats |-> StatsText(data.stats),
     queue |-> [k \in 1 .. (IF Len(data.queue) < QueueCap THEN Len(data.queue) ELSE QueueCap) |->
                  data.queue[Len(data.queue) + 1 - k]],
     processing |-> data.processing]

\* renderServices, renderStats, renderQueue (first 10), renderProcessing
PopRender(data) ==
    [services |-> data.services,
     stats |-> StatsText(data.stats),
     queue |-> SubSeq(data.queue, 1, IF Len(data.queue) < QueueCap THEN Len(data.queue) ELSE QueueCap),
     processing |-> data.processing]

\* Promise.all resolves: the four renderers run
PopPullCompleted(i) ==
    /\ i \in DOMAIN popPulls
    /\ popPulls[i].got = PopFields
    /\ popDom' = PopRender(popPulls[i].data)
    /\ mutatedAfterStop' = (mutatedAfterStop \/ (stopped /\ popDom' # popDom))
    /\ popPulls' = RemoveAt(popPulls, i)
    /\ PopFrame
    /\ UNCHANGED <<storeVars, valVars, loginVars, regVars>>
    /\ UNCHANGED <<dashVars, bgVars, killVars>>

(***************************************************************************)
(* killRequest(requestId) of the dashboard and of the popup.               *)
(***************************************************************************)
\* POST /api/kill/{id}: a queued or processing request becomes killed, any
\* other id is answered with an error status
KillOnServer(id) ==
    IF id \in IdsOf(srv.queue) \cup IdsOf(srv.processing)
    THEN [queue |-> WithoutId(srv.queue, id),
          processing |-> WithoutId(srv.processing, id),
          history |-> <<Rec(id, "killed")>> \o srv.history]
    ELSE srv

\* the status of the answer: 2xx for a request that was live, else an error
KillAccepted(id) == id \in IdsOf(srv.queue) \cup IdsOf(srv.processing)

DashFrame == UNCHANGED <<dom, pulls, inbox, sock, ws, reconnectTimers, connected, last,
                         seenTerminal>>

\* dashboard: the cards of the queue and processing lists carry a KILL
\* button (showKill), written without a disabled attribute
KillButton(id) == id \in IdsOf(dom.queue) \cup IdsOf(dom.processing)

\* dashboard: a KILL button of a shown card is clicked, the POST is issued
KillRequest(id) ==
    /\ KillButton(id)
    /\ Len(kills) < MaxKills
    /\ kills' = Append(kills, id)
    /\ DashFrame
    /\ UNCHANGED <<srv, popKills, killLog>>
    /\ UNCHANGED <<popupVars, bgVars>>

\* dashboard: the POST is answered, ok or not (not ok is logged)
KillAnswered(i) ==
    /\ i \in DOMAIN kills
    /\ srv' = KillOnServer(kills[i])
    /\ kills' = RemoveAt(kills, i)
    /\ killLog' = IF KillAccepted(kills[i]) THEN "" ELSE "Erreur lors du kill"
    /\ DashFrame
    /\ UNCHANGED popKills
    /\ UNCHANGED <<popupVars, bgVars>>

\* dashboard: the POST rejects (logged by the catch)
KillFailed(i) ==
    /\ i \in DOMAIN kills
    /\ kills' = RemoveAt(kills, i)
    /\ killLog' = "Erreur:"
    /\ DashFrame
    /\ UNCHANGED <<srv, popKills>>
    /\ UNCHANGED <<popupVars, bgVars>>

\* popup: every entry of the two lists carries a request-kill button with a
\* click listener, written without a disabled attribute
PopKillButton(id) == id \in IdsOf(popDom.queue) \cup IdsOf(popDom.processing)

PopKillFrame ==
    /\ UNCHANGED <<popDom, conns, refreshInterval, leakedTimers, discPending, stopped,
                   mutatedAfterStop>>
    /\ UNCHANGED <<storeVars, valVars, loginVars, regVars>>

\* popup: a KILL button of a shown entry is clicked, the POST is issued to
\* the configured server
PopKillRequest(id) ==
    /\ pview = "dashboard-view"
    /\ HasServer(config)
    /\ PopKillButton(id)
    /\ Len(popKills) < MaxKills
    /\ popKills' = Append(popKills, id)
    /\ PopKillFrame
    /\ UNCHANGED <<popPulls, kills, killLog>>
    /\ UNCHANGED <<dashVars, bgVars>>

\* a faulty variant: the popup takes the killed entry off its lists itself
PopKillAnswered_optimistic(i) ==
    /\ i \in DOMAIN popKills
    /\ srv' = KillOnServer(popKills[i])
    /\ popKills' = RemoveAt(popKills, i)
    /\ popPulls' = refresh(popPulls)
    /\ killLog' = ""
    /\ popDom' = [popDom EXCEPT !.queue = WithoutId(@, popKills[i]),
                                !.processing = WithoutId(@, popKills[i])]
    /\ UNCHANGED <<conns, refreshInterval, leakedTimers, discPending, stopped,
                   mutatedAfterStop>>
    /\ UNCHANGED <<storeVars, valVars, loginVars, regVars>>
    /\ UNCHANGED <<dom, pulls, inbox, sock, ws, reconnectTimers, connected, last,
                   seenTerminal, kills>>
    /\ UNCHANGED bgVars

\* popup: the POST is answered, with any status: this.refresh()
PopKillAnswered(i) ==
    /\ i \in DOMAIN popKills
    /\ srv' = KillOnServer(popKills[i])
    /\ popKills' = RemoveAt(popKills, i)
    /\ popPulls' = refresh(popPulls)
    /\ killLog' = ""
    /\ PopKillFrame
    /\ UNCHANGED <<dom, pulls, inbox, sock, ws, reconnectTimers, connected, last,
                   seenTerminal, kills>>
    /\ UNCHANGED bgVars

\* popup: the POST rejects (logged by the catch, no refresh)
PopKillFailed(i) ==
    /\ i \in DOMAIN popKills
    /\ popKills' = RemoveAt(popKills, i)
    /\ killLog' = "Kill error:"
    /\ PopKillFrame
    /\ UNCHANGED <<popPulls, kills>>
    /\ UNCHANGED <<dashVars, bgVars>>

(***************************************************************************)
(* Service worker (background.js): monitoring of the configured server.    *)
(* The persisted record is an input of the worker: it reads the record's   *)
(* `host` field only, held here as "" when the record has none.            *)
(***************************************************************************)
MonitoredHost == "http://10.0.0.1:8080"
StoredRecords == {Null, <<[host |-> ""]>>, <<[host |-> MonitoredHost]>>}

QueueAlertThreshold == 50
ProbePeriodMs == 30000
ProbeTimeoutMs == 5000

\* bodies of /api/stats the monitored server answers with
ProbeStats == [queue_count : {0, 50, 51, 52}, processing_count : {0, 2}]

\* updateBadge(value): '' for null and 0, '!' for '!', String(value) otherwise
updateBadge(value) == IF value = "0" \/ value = "null" THEN "" ELSE value

\* checkServerStatus() up to its await: without a host the badge is cleared
\* and the call returns, else the fetch of /api/stats is issued
checkServerStatus(cfg, origin) ==
    IF cfg = Null \/ cfg[1].host = ""
    THEN /\ badge' = updateBadge("null")
         /\ UNCHANGED probes
    ELSE /\ Len(probes) < MaxProbes
         /\ probes' = Append(probes, origin)
         /\ UNCHANGED badge

\* a faulty variant: a new timer is armed beside the one already armed
startMonitoring_noClear(cfg) ==
    /\ checkInterval' = TRUE
    /\ bgTimers' = bgTimers + 1
    /\ checkServerStatus(cfg, "start")

\* startMonitoring(): the armed timer is cleared, a new one armed, one probe made
startMonitoring(cfg) ==
    /\ checkInterval' = TRUE
    /\ bgTimers' = IF checkInterval THEN bgTimers ELSE bgTimers + 1
    /\ checkServerStatus(cfg, "start")

\* stopMonitoring(): the armed timer is cleared, the badge emptied
stopMonitoring ==
    /\ checkInterval' = FALSE
    /\ bgTimers' = IF checkInterval THEN bgTimers - 1 ELSE bgTimers
    /\ badge' = updateBadge("null")
    /\ UNCHANGED probes

\* chrome.storage.local.get(['llmMonitorConfig'], ...) at start-up answers
BgLoaded(record) ==
    /\ ~bgLoaded
    /\ bgLoaded' = TRUE
    /\ monitorConfig' = record
    /\ IF record # Null
       THEN startMonitoring(record)
       ELSE UNCHANGED <<checkInterval, bgTimers, probes, badge>>
    /\ UNCHANGED <<notifs, crossings, prevAbove>>
    /\ UNCHANGED <<dashVars, popupVars, testVars, killVars>>

\* chrome.storage.onChanged: the record was written (newValue) or removed
BgStorageChanged(newValue) ==
    /\ bgLoaded
    /\ monitorConfig' = newValue
    /\ IF newValue # Null THEN startMonitoring(newValue) ELSE stopMonitoring
    /\ UNCHANGED <<bgLoaded, notifs, crossings, prevAbove>>
    /\ UNCHANGED <<dashVars, popupVars, testVars, killVars>>

\* the 30 s interval fires; a probe ends within its 5 s timeout, so the
\* probe of the previous tick or of startMonitoring() has ended by then
BgTimerFired ==
    /\ checkInterval
    /\ ProbeTimeoutMs < ProbePeriodMs =>
          \A i \in DOMAIN probes : probes[i] \notin {"timer", "start"}
    /\ checkServerStatus(monitorConfig, "timer")
    /\ UNCHANGED <<monitorConfig, checkInterval, bgTimers, bgLoaded, notifs, crossings,
                   prevAbove>>
    /\ UNCHANGED <<dashVars, popupVars, testVars, killVars>>

\* runtime.onMessage {action: 'getStatus'}: checkServerStatus()
BgGetStatus ==
    /\ bgLoaded
    /\ checkServerStatus(monitorConfig, "message")
    /\ UNCHANGED <<monitorConfig, checkInterval, bgTimers, bgLoaded, notifs, crossings,
                   prevAbove>>
    /\ UNCHANGED <<dashVars, popupVars, testVars, killVars>>

\* /api/stats answers 2xx with a readable body: badge, then the queue alert.
\* The alert's text reads monitorConfig.host: with the record removed
\* meanwhile that throws, and the probe ends in the catch like a failed one.
ProbeSucceeded(i, stats) ==
    /\ i \in DOMAIN probes
    /\ probes' = RemoveAt(probes, i)
    /\ IF stats.queue_count > QueueAlertThreshold /\ monitorConfig = Null
       THEN /\ badge' = updateBadge("!")
            /\ UNCHANGED <<notifs, crossings, prevAbove>>
       ELSE /\ badge' = updateBadge(ToString(stats.queue_count + stats.processing_count))
            /\ IF stats.queue_count > QueueAlertThreshold
               THEN /\ notifs < MaxNotifs
                    /\ notifs' = notifs + 1       \* showNotification(...)
               ELSE UNCHANGED notifs
            /\ prevAbove' = (stats.queue_count > QueueAlertThreshold)
            /\ crossings' = IF stats.queue_count > QueueAlertThreshold /\ ~prevAbove
                            THEN crossings + 1 ELSE crossings
    /\ UNCHANGED <<monitorConfig, checkInterval, bgTimers, bgLoaded>>
    /\ UNCHANGED <<dashVars, popupVars, testVars, killVars>>

\* a faulty variant: a failed probe gives the schedule up
ProbeFailed_stops(i) ==
    /\ i \in DOMAIN probes
    /\ probes' = RemoveAt(probes, i)
    /\ badge' = updateBadge("!")
    /\ checkInterval' = FALSE
    /\ bgTimers' = IF checkInterval THEN bgTimers - 1 ELSE bgTimers
    /\ UNCHANGED <<monitorConfig, bgLoaded, notifs, crossings, prevAbove>>
    /\ UNCHANGED <<dashVars, popupVars, testVars, killVars>>

\* the fetch times out or rejects, the status is not 2xx, or the body is unreadable
ProbeFailed(i) ==
    /\ i \in DOMAIN probes
    /\ probes' = RemoveAt(probes, i)
    /\ badge' = updateBadge("!")
    /\ UNCHANGED <<monitorConfig, checkInterval, bgTimers, bgLoaded, notifs, crossings,
                   prevAbove>>
    /\ UNCHANGED <<dashVars, popupVars, testVars, killVars>>

\* hosts the options page asks the worker to test
TestedHosts == {MonitoredHost, "http://10.0.0.9:8080"}

\* runtime.onMessage {action: 'testConnection', host}: testConnection(host)
\* issues its own fetch of host/api/stats
BgTestConnection(host) ==
    /\ Len(tests) < MaxTests
    /\ tests' = Append(tests, host)
    /\ UNCHANGED <<monitorConfig, checkInterval, bgTimers, probes, badge, bgLoaded,
                   notifs, crossings, prevAbove, testResult>>
    /\ UNCHANGED <<dashVars, popupVars, killVars>>

\* the tested host answers 2xx with a readable body: {success: true, data}
TestSucceeded(i, stats) ==
    /\ i \in DOMAIN tests
    /\ tests' = RemoveAt(tests, i)
    /\ testResult' = <<[success |-> TRUE, data |-> <<stats>>, error |-> ""]>>
    /\ UNCHANGED <<monitorConfig, checkInterval, bgTimers, probes, badge, bgLoaded,
                   notifs, crossings, prevAbove>>
    /\ UNCHANGED <<dashVars, popupVars, killVars>>

\* a faulty variant: a failed test goes through the probe's catch
TestFailed_badge(i, error) ==
    /\ i \in DOMAIN tests
    /\ tests' = RemoveAt(tests, i)
    /\ testResult' = <<[success |-> FALSE, data |-> <<>>, error |-> error]>>
    /\ badge' = updateBadge("!")
    /\ UNCHANGED <<monitorConfig, checkInterval, bgTimers, probes, bgLoaded,
                   notifs, crossings, prevAbove>>
    /\ UNCHANGED <<dashVars, popupVars, killVars>>

\* the status is not 2xx ('HTTP 500'), or the fetch times out or rejects or
\* the body is unreadable (error.message): {success: false, error}
TestFailed(i, error) ==
    /\ i \in DOMAIN tests
    /\ tests' = RemoveAt(tests, i)
    /\ testResult' = <<[success |-> FALSE, data |-> <<>>, error |-> error]>>
    /\ UNCHANGED <<monitorConfig, checkInterval, bgTimers, probes, badge, bgLoaded,
                   notifs, crossings, prevAbove>>
    /\ UNCHANGED <<dashVars, popupVars, killVars>>

\* errors testConnection() answers with
TestErrors == {"HTTP 500", "The operation timed out."}

(***************************************************************************)
(* Initial states.                                                         *)
(***************************************************************************)
EmptyPage == [queue |-> <<>>, processing |-> <<>>, history |-> <<>>, stats |-> <<>>]
EmptyPopPage == [services |-> <<>>, stats |-> <<>>, queue |-> <<>>, processing |-> <<>>]

\* new LLMMonitor() of the dashboard: init() has called connectWebSocket()
\* and loadData()
DashPageInit ==
    /\ dom = EmptyPage
    /\ pulls = <<NewPull>>
    /\ inbox = <<>>
    /\ sock = [s \in Sockets |-> IF s = 1 THEN "connecting" ELSE "none"]
    /\ ws = 1
    /\ reconnectTimers = 0
    /\ connected = FALSE
    /\ last = EmptyPage
    /\ seenTerminal = {}
    /\ kills = <<>>
    /\ killLog = ""

DashInit ==
    /\ srv = [queue |-> <<>>, processing |-> <<>>, history |-> <<>>]
    /\ DashPageInit

\* new LLMMonitor() of the popup: init() awaits loadConfig()
PopupInit(records) ==
    /\ stored \in records
    /\ config = Null
    /\ pview = "loading"
    /\ authError = ""
    /\ initPc = "loadConfig"
    /\ isValid = FALSE
    /\ refreshCalls = 0
    /\ meRejected = FALSE
    /\ hadRefresh = FALSE
    /\ refreshResult = ""
    /\ loginPc = "idle"
    /\ loginForm = NoForm
    /\ loginBtnDisabled = FALSE
    /\ loginPosts = 0
    /\ loginReq = <<>>
    /\ regPc = "idle"
    /\ regForm = [username |-> <<>>, email |-> "", password |-> <<>>]
    /\ regBtnDisabled = FALSE
    /\ regPosts = 0
    /\ regReq = <<>>
    /\ conns = <<>>
    /\ refreshInterval = FALSE
    /\ leakedTimers = 0
    /\ popPulls = <<>>
    /\ popDom = EmptyPopPage
    /\ discPending = 0
    /\ stopped = FALSE
    /\ mutatedAfterStop = FALSE
    /\ popKills = <<>>

\* the service worker starts: its chrome.storage.local.get is pending
BgInit ==
    /\ monitorConfig = Null
    /\ checkInterval = FALSE
    /\ bgTimers = 0
    /\ probes = <<>>
    /\ badge = ""
    /\ bgLoaded = FALSE
    /\ notifs = 0
    /\ crossings = 0
    /\ prevAbove = FALSE
    /\ tests = <<>>
    /\ testResult = <<>>

(***************************************************************************)
(* Next-state relations of the three programs.                             *)
(***************************************************************************)
ServerStep ==
    \/ \E id \in RequestIds : ServerSubmit(id)
    \/ ServerStart
    \/ \E id \in RequestIds, o \in {"completed", "failed"} : ServerFinish(id, o)
    \/ \E id \in RequestIds : ServerKill(id)

PullNext ==
    \/ LoadData
    \/ \E i \in 1 .. MaxPulls, f \in Fields : FetchServed(i, f)
    \/ \E i \in 1 .. MaxPulls : FetchFailed(i)
    \/ \E i \in 1 .. MaxPulls : PullCompleted(i)

StreamNext ==
    \/ ServerStep
    \/ \E s \in Sockets : WsOpen(s)
    \/ \E s \in Sockets : WsError(s)
    \/ \E s \in Sockets : WsClose(s)
    \/ ReconnectFire
    \/ \E shape \in PushShapes : ServerPush(shape)
    \/ WsMessage

ValidateNext ==
    \/ PopupLoaded
    \/ MeAccepted
    \/ MeRejected
    \/ MeFailed
    \/ RefreshFailed
    \/ RefreshGranted("t2", "f2")
    \/ RefreshSaved

LoginNext ==
    \/ \E u \in RawUsernames, p \in LoginPasswords, r \in {"true", "false"} :
          LoginSubmit(u, p, r)
    \/ LoginHashed
    \/ \E f \in {"f1", ""} : LoginGranted("t1", f)
    \/ LoginSaved
    \/ \E m \in LoginFailures : LoginFailed(m)

RegisterNext ==
    \/ \E u \in RawUsernames, p \in RegPasswords, p2 \in RegPasswords :
          RegisterSubmit(u, p, p2)
    \/ RegisterHashed
    \/ RegisterGranted("t1", "f1")
    \/ RegisterSaved
    \/ \E m \in RegisterFailures : RegisterFailed(m)

ServerViewNext ==
    \/ Logout
    \/ \E h \in RawHosts : ServerConnectSubmit(h, "")
    \/ \E i \in 1 .. MaxConns : ServerConnectOk(i)
    \/ \E i \in 1 .. MaxConns : ServerConnectSaved(i)
    \/ \E i \in 1 .. MaxConns : ServerConnectFailed(i)
    \/ Disconnect
    \/ DisconnectSaved

PopPullNext ==
    \/ PopTimerFired
    \/ \E i \in 1 .. MaxPopPulls, f \in PopFields : PopFetchServed(i, f)
    \/ \E i \in 1 .. MaxPopPulls : PopFetchFailed(i)
    \/ \E i \in 1 .. MaxPopPulls : PopPullCompleted(i)

MonitorNext ==
    \/ \E r \in StoredRecords : BgLoaded(r)
    \/ \E r \in StoredRecords : BgStorageChanged(r)
    \/ BgTimerFired
    \/ BgGetStatus
    \/ \E i \in 1 .. MaxProbes, st \in ProbeStats : ProbeSucceeded(i, st)
    \/ \E i \in 1 .. MaxProbes : ProbeFailed(i)

(***************************************************************************)
(* Specifications.                                                         *)
(***************************************************************************)
\* the dashboard: both channels against the monitored server
Init == DashInit /\ PopupInit({Null}) /\ BgInit
Next == PullNext \/ StreamNext
Spec == Init /\ [][Next]_vars

\* the dashboard's push channel on its own (no pull action writes a variable
\* of the push channel)
SpecStream == Init /\ [][StreamNext]_vars

\* the push channel with its reconnect timeout: a pending setTimeout fires
SpecReconnect == Init /\ [][StreamNext]_vars /\ WF_vars(ReconnectFire)

\* the dashboard's pull channel on its own, the server's answers to a list
\* fetch being well-formed or not
PullOnlyNext ==
    \/ PullNext
    \/ \E i \in 1 .. MaxPulls, f \in Fields : FetchMalformed(i, f)
    \/ ServerStep
SpecPull == Init /\ [][PullOnlyNext]_vars

\* the dashboard against a server that answers every fetch while the stream
\* never opens: each connection attempt ends in an error and a close
StreamDownNext ==
    \/ LoadData
    \/ \E i \in 1 .. MaxPulls, f \in Fields : FetchServed(i, f)
    \/ \E i \in 1 .. MaxPulls : PullCompleted(i)
    \/ ServerStep
    \/ \E s \in Sockets : WsError(s)
    \/ \E s \in Sockets : WsClose(s)
    \/ ReconnectFire
SpecStreamDown ==
    /\ Init
    /\ [][StreamDownNext]_vars
    /\ WF_vars(LoadData)
    /\ WF_vars(\E i \in 1 .. MaxPulls, f \in Fields : FetchServed(i, f))
    /\ WF_vars(\E i \in 1 .. MaxPulls : PullCompleted(i))

\* the dashboard's pull channel where the server takes longer than the 2 s
\* period to answer, so that pulls overlap
OverlapNext ==
    \/ LoadData
    \/ LoadDataOverlapping
    \/ \E i \in 1 .. MaxOverlap, f \in Fields : FetchServed(i, f)
    \/ \E i \in 1 .. MaxOverlap : PullCompleted(i)
    \/ ServerStep
SpecOverlap == Init /\ [][OverlapNext]_vars

\* the two recurring schedules and their failures, the worker's 30 s probe
\* and the dashboard's 2 s pull: an armed interval timer fires again and
\* again
ScheduleNext ==
    \/ MonitorNext
    \/ LoadData
    \/ \E i \in 1 .. MaxPulls : FetchFailed(i)
SpecSchedule ==
    Init /\ [][ScheduleNext]_vars /\ WF_vars(BgTimerFired) /\ WF_vars(LoadData)

\* the popup's session lifecycle, from any record a previous run left
PopupStart == DashInit /\ PopupInit(StoredAtStart) /\ BgInit
AuthNext == ValidateNext \/ LoginNext \/ RegisterNext \/ Logout
SpecAuth == PopupStart /\ [][AuthNext]_vars

\* the session lifecycle where every step the popup takes by itself is
\* taken, and where a fetch made with AbortSignal.timeout(5000) ends: the
\* load and the writes of the store, the digest, the timeout of /api/auth/me
SpecTimeout ==
    /\ PopupStart
    /\ [][AuthNext]_vars
    /\ WF_vars(PopupLoaded)
    /\ WF_vars(MeFailed)
    /\ WF_vars(RefreshSaved)
    /\ WF_vars(LoginHashed)
    /\ WF_vars(LoginSaved)

\* the popup's pull channel against the monitored server
SyncNext == ValidateNext \/ ServerViewNext \/ PopPullNext \/ ServerStep
SpecSync == PopupStart /\ [][SyncNext]_vars

\* both pages against one server whose requests wait in the queue until
\* they are cancelled from a page: the dashboard pulls, the popup opens on a
\* stored session with a server and pulls
KillNext ==
    \/ \E id \in RequestIds : ServerSubmit(id)
    \/ LoadData
    \/ \E i \in 1 .. MaxPulls, f \in Fields : FetchServed(i, f)
    \/ \E i \in 1 .. MaxPulls : PullCompleted(i)
    \/ \E id \in RequestIds : KillRequest(id)
    \/ \E i \in 1 .. MaxKills : KillAnswered(i)
    \/ \E i \in 1 .. MaxKills : KillFailed(i)
    \/ PopupLoaded
    \/ MeAccepted
    \/ PopTimerFired
    \/ \E i \in 1 .. MaxPopPulls, f \in PopFields : PopFetchServed(i, f)
    \/ \E i \in 1 .. MaxPopPulls : PopPullCompleted(i)
    \/ \E id \in RequestIds : PopKillRequest(id)
    \/ \E i \in 1 .. MaxKills : PopKillAnswered(i)
    \/ \E i \in 1 .. MaxKills : PopKillFailed(i)
KillStart ==
    /\ DashInit
    /\ PopupInit({r \in StoredAtStart : HasServer(r)})
    /\ BgInit
SpecKill == KillStart /\ [][KillNext]_vars

\* both pages pulling from a server that holds lists of several requests,
\* in an order that is not the order of their ids
ListOf(n, st) == [i \in 1 .. n |-> Rec(ToString(n + 1 - i), st)]
RenderServers ==
    [queue : {ListOf(2, "queued"), ListOf(MaxListLen, "queued")},
     processing : {ListOf(2, "processing")},
     history : {<<Rec("h2", "failed"), Rec("h1", "completed")>>}]
RenderStart ==
    /\ srv \in RenderServers
    /\ DashPageInit
    /\ PopupInit({r \in StoredAtStart : HasServer(r)})
    /\ BgInit
RenderNext ==
    \/ LoadData
    \/ \E i \in 1 .. MaxPulls, f \in Fields : FetchServed(i, f)
    \/ \E i \in 1 .. MaxPulls : PullCompleted(i)
    \/ PopupLoaded
    \/ MeAccepted
    \/ PopTimerFired
    \/ \E i \in 1 .. MaxPopPulls, f \in PopFields : PopFetchServed(i, f)
    \/ \E i \in 1 .. MaxPopPulls : PopPullCompleted(i)
SpecRender == RenderStart /\ [][RenderNext]_vars

\* the record as the service worker reads it: of what the popup stores it
\* uses the `host` field only, which the popup's records do not have (the
\* popup writes the server's URL to `serverHost`)
WorkerView(record) ==
    IF record = Null THEN Null
    ELSE <<[host |-> IF "host" \in DOMAIN record[1] THEN record[1].host ELSE ""]>>

\* the popup connecting a server while the service worker follows the store
\* the popup writes
LinkNext ==
    \/ ValidateNext
    \/ ServerViewNext
    \/ BgLoaded(WorkerView(stored))
    \/ BgStorageChanged(WorkerView(stored))
    \/ BgTimerFired
SpecLink == PopupStart /\ [][LinkNext]_vars

\* the service worker's probe beside the connection tests of its options page
TestNext ==
    \/ MonitorNext
    \/ \E h \in TestedHosts : BgTestConnection(h)
    \/ \E i \in 1 .. MaxTests, st \in ProbeStats : TestSucceeded(i, st)
    \/ \E i \in 1 .. MaxTests, e \in TestErrors : TestFailed(i, e)
SpecTest == Init /\ [][TestNext]_vars

\* the service worker
SpecMonitor == Init /\ [][MonitorNext]_vars

(***************************************************************************)
(* The popup is a page: closing it ends every call of its script that is   *)
(* in flight, opening it again runs `new LLMMonitor()` over the record the *)
(* store holds by then.                                                    *)
(***************************************************************************)
PopupReopened ==
    /\ initPc # "loadConfig"
    /\ config' = Null
    /\ pview' = "loading"
    /\ authError' = ""
    /\ initPc' = "loadConfig"
    /\ isValid' = FALSE
    /\ refreshCalls' = 0
    /\ meRejected' = FALSE
    /\ hadRefresh' = FALSE
    /\ refreshResult' = ""
    /\ loginPc' = "idle"
    /\ loginForm' = NoForm
    /\ loginBtnDisabled' = FALSE
    /\ loginPosts' = 0
    /\ loginReq' = <<>>
    /\ regPc' = "idle"
    /\ regForm' = [username |-> <<>>, email |-> "", password |-> <<>>]
    /\ regBtnDisabled' = FALSE
    /\ regPosts' = 0
    /\ regReq' = <<>>
    /\ conns' = <<>>
    /\ refreshInterval' = FALSE
    /\ leakedTimers' = 0
    /\ popPulls' = <<>>
    /\ popDom' = EmptyPopPage
    /\ discPending' = 0
    /\ stopped' = FALSE
    /\ mutatedAfterStop' = FALSE
    /\ UNCHANGED stored
    /\ UNCHANGED <<dashVars, bgVars, killVars>>

\* the popup's writes and reads of the stored record, across popup lifetimes
\* (one value per form field: what is typed does not decide what is written)
StoreNext ==
    \/ ValidateNext
    \/ \E r \in {"true", "false"} : LoginSubmit(<<"a", "l">>, Abcd1234, r)
    \/ LoginHashed
    \/ \E f \in {"f1", ""} : LoginGranted("t1", f)
    \/ LoginSaved
    \/ LoginFailed("Failed to fetch")
    \/ RegisterSubmit(<<"a", "l">>, Abcd1234, Abcd1234)
    \/ RegisterHashed
    \/ RegisterGranted("t1", "f1")
    \/ RegisterSaved
    \/ RegisterFailed("Failed to fetch")
    \/ ServerViewNext
    \/ PopupReopened
SpecStore == PopupStart /\ [][StoreNext]_vars

\* C12: whenever no call that reads or writes the session is in progress
\* (init with its validate and refresh, login, register, server connect,
\* disconnect), the persisted record equals the configuration in memory:
\* every change of the session has been written, and what init() read is
\* what the last write left.
C12_StoreMatchesMemory ==
    ( /\ initPc = "done"
      /\ loginPc \in {"idle", "returned"}
      /\ regPc \in {"idle", "returned"}
      /\ \A i \in DOMAIN conns : conns[i].pc = "fetch"
      /\ discPending = 0 )
    => stored = config

\* a popup that has made no login or register itself holds the session an
\* earlier popup wrote at login ("t1" is issued by login and register only)
C12_Witness ==
    /\ initPc = "done"
    /\ loginPc = "idle"
    /\ regPc = "idle"
    /\ HasToken(config)
    /\ config[1].centralToken = "t1"
    /\ stored = config

(***************************************************************************)
(* Properties of the dashboard (Spec, SpecStream).                         *)
(***************************************************************************)
\* C1: after any sequence of deliveries (push messages and completed pulls)
\* every field of the visible snapshot is the value carried by the most
\* recent delivery that carried that field; a delivery that omits a field
\* leaves the field as it was.
C1_LastDeliveryShown == dom = last

\* C4: once an earlier snapshot has shown a request id as completed, failed
\* or killed, no later snapshot shows that id as queued or processing.
C4_StatusNeverReverts == seenTerminal \cap ShownLive(dom) = {}

\* C5: pending reconnect timers plus sockets that are connecting or open
\* are never more than one.
C5_ReconnectsDoNotAccumulate ==
    reconnectTimers + Cardinality({s \in Sockets : sock[s] \in {"connecting", "open"}}) <= 1

\* the socket has errored and closed: the close has scheduled the one timer
\* and nothing is connecting or open
C5_Witness ==
    /\ sock[ws] = "closed"
    /\ reconnectTimers = 1
    /\ connected = FALSE

(***************************************************************************)
(* Properties of the popup's session lifecycle (SpecAuth).                 *)
(***************************************************************************)
\* C6 as stated: a call of validateCentralToken() issues at most one refresh
\* request, and whenever /api/auth/me rejects the access token exactly one
\* refresh is attempted and its outcome is what the call returns.
C6_RefreshOnEveryRejection ==
    /\ refreshCalls <= 1
    /\ (initPc = "done" /\ meRejected) =>
           /\ refreshCalls = 1
           /\ isValid = (refreshResult = "true")

\* C6: a call of validateCentralToken() issues at most one refresh request
\* and none unless /api/auth/me rejected the access token; on a rejection
\* with a refresh token held exactly one refresh is attempted and its
\* outcome is what the call returns; on a rejection with no refresh token
\* held no refresh is attempted and the call returns false.
C6_OneRefreshPerValidate ==
    /\ refreshCalls <= 1
    /\ ~meRejected => refreshCalls = 0
    /\ (initPc = "done" /\ meRejected /\ hadRefresh) =>
           /\ refreshCalls = 1
           /\ isValid = (refreshResult = "true")
    /\ (initPc = "done" /\ meRejected /\ ~hadRefresh) =>
           /\ refreshCalls = 0
           /\ ~isValid

\* validate has returned after a rejection and one refresh that failed
C6_Witness ==
    /\ initPc = "done"
    /\ meRejected
    /\ hadRefresh
    /\ refreshCalls = 1
    /\ refreshResult = "false"
    /\ ~isValid

\* C8: a login issues at most one POST to /api/auth/login, and exactly one
\* once its digest is ready; the body's password_hash is the digest of
\* salt + lower-cased username + ':' + password; the password_hash of a
\* login or register request is never the password as typed.
C8_LoginSendsDigestOnce ==
    /\ loginPosts <= 1
    /\ loginPc \in {"fetch", "save", "returned"} => loginPosts = 1
    /\ loginPc \in {"idle", "hash"} => loginPosts = 0 /\ loginReq = <<>>
    /\ loginReq # <<>> =>
           /\ loginReq[1].password_hash =
                  <<"sha256", "LLM_MONITOR_2024_">> \o toLowerCase(loginForm.username)
                      \o <<":">> \o loginForm.password
           /\ loginReq[1].password_hash # loginForm.password
    /\ regReq # <<>> => regReq[1].password_hash # regForm.password

\* the one POST of a login is in flight, for a username typed with a capital
C8_Witness ==
    /\ loginReq # <<>>
    /\ loginPosts = 1
    /\ loginForm.username = <<"A", "l">>
    /\ loginForm.password = Abcd1234

\* C9: a register submit whose password and confirmation differ, or whose
\* password is shorter than 8 characters or lacks an uppercase letter or a
\* digit, returns at once: no request is issued, the session in memory and
\* in the store is unchanged, and the message shown is that of the first
\* violated rule (mismatch, then length, then character classes).
C9_InvalidRegisterShortCircuits ==
    [][\A p \in RegPasswords, p2 \in RegPasswords :
          ( /\ \E u \in RawUsernames : RegisterSubmit(u, p, p2)
            /\ (p # p2 \/ Len(p) < 8 \/ ~HasUpper(p) \/ ~HasDigit(p)) )
          => /\ regPc' = "returned"
             /\ regPosts' = 0
             /\ UNCHANGED <<regReq, loginReq, config, stored>>
             /\ authError' = IF p # p2 THEN MsgMismatch
                             ELSE IF Len(p) < 8 THEN MsgTooShort
                             ELSE MsgCharset
      ]_vars

\* a register submit with a too-short password has returned with its message
C9_Witness ==
    /\ regPc = "returned"
    /\ authError = MsgTooShort
    /\ regPosts = 0
    /\ regReq = <<>>

\* C10: a refreshCentralToken() that fails (the fetch rejects or the answer
\* is not 2xx) returns false and changes neither the tokens in memory nor
\* the persisted record.
C10_FailedRefreshKeepsSession ==
    [][(initPc = "validateRefresh" /\ refreshResult' = "false")
          => /\ UNCHANGED <<config, stored>>
             /\ ~isValid']_vars

\* a refresh has failed and the session still holds both tokens
C10_Witness ==
    /\ refreshResult = "false"
    /\ HasToken(config)
    /\ HasRefresh(config)
    /\ stored = config

(***************************************************************************)
(* Properties of the popup's pull channel (SpecSync).                      *)
(***************************************************************************)
\* C2: once stopRefresh() has been called (by disconnectServer or logout)
\* and until startRefresh() is called again, no refresh() changes what the
\* popup dashboard shows: a response that was in flight at the stop is
\* dropped, not rendered.
C2_StopIsFinal == stopped => ~mutatedAfterStop

C11_LogoutCancelsEverything ==
    [][/\ Logout => /\ stored' = Null
                    /\ config' = Null
                    /\ ~refreshInterval'
                    /\ leakedTimers' = 0
       /\ BgStorageChanged(Null) => (~checkInterval' /\ bgTimers' = 0)]_vars

(***************************************************************************)
(* Properties of the dashboard's pull channel (SpecPull).                  *)
(***************************************************************************)
\* C13: a pull changes the page only as a whole: when one of its fetches
\* fails, or is answered with a body that is not of the expected shape, no
\* part of the page changes.
C13_PullAllOrNothing ==
    [][\A i \in DOMAIN pulls :
          (FetchFailed(i) \/ (PullCompleted(i) /\ pulls[i].bad # {})) => dom' = dom]_vars

C15_FailureKeepsSchedule ==
    /\ [][(\E i \in DOMAIN probes : ProbeFailed(i))
             => UNCHANGED <<checkInterval, bgTimers>>]_vars
    /\ (badge = "!" /\ probes = <<>> /\ checkInterval)
          ~> (probes # <<>> \/ ~checkInterval
                \/ monitorConfig = Null \/ monitorConfig[1].host = "")
    /\ (pulls = <<>>) ~> (pulls # <<>>)

\* a probe has failed, the timer is armed and the next probe is in flight
C15_Witness ==
    /\ badge = "!"
    /\ checkInterval
    /\ probes = <<"timer">>
    /\ pulls # <<>>

\* C16: a connection test, when issued and when answered, with success or
\* with failure, leaves the recurring probe's timer, the probes in flight,
\* the monitor's configuration and the badge as they were.
C16_TestLeavesMonitorAlone ==
    [][((\E h \in TestedHosts : BgTestConnection(h))
          \/ (\E i \in DOMAIN tests, st \in ProbeStats : TestSucceeded(i, st))
          \/ (\E i \in DOMAIN tests, e \in TestErrors : TestFailed(i, e)))
        => UNCHANGED <<checkInterval, bgTimers, probes, monitorConfig, badge>>]_vars

\* a test has failed while the badge shows the count of the last probe
C16_Witness ==
    /\ testResult # <<>>
    /\ ~testResult[1].success
    /\ checkInterval
    /\ badge = "2"

\* C17: the indicator is on while the current socket is open and off while
\* it is connecting or closed (between the error event and the close event
\* of one failure, dispatched one after the other, it still shows what it
\* showed); every close event turns it off and arms one reconnect timeout,
\* and a closed stream is always followed by a new connection attempt.
C17_IndicatorFollowsSocket ==
    /\ [](/\ sock[ws] = "open" => connected
          /\ sock[ws] \in {"connecting", "closed"} => ~connected)
    /\ [][\A s \in Sockets :
             WsClose(s) => (~connected' /\ reconnectTimers' = reconnectTimers + 1)]_vars
    /\ (sock[ws] = "closed") ~> (sock[ws] = "connecting")

\* the stream had delivered a message, then closed: the indicator is off and
\* the reconnect timeout is pending
C17_Witness ==
    /\ dom # EmptyPage
    /\ sock[ws] = "closed"
    /\ ~connected
    /\ reconnectTimers = 1

\* what the page shows once a pull has read the server's present state
ServerView == updateDashboard(EmptyPage, [f \in Fields |-> Resource(f)])

\* C18: with the stream never open, every pull whose four fetches were
\* answered is applied to the page in full, and the page comes to show the
\* server's state and keeps showing it once the server has stopped changing.
C18_PullWorksWithoutStream ==
    /\ [](~connected /\ inbox = <<>>)
    /\ [][\A i \in DOMAIN pulls :
             PullCompleted(i) => dom' = updateDashboard(dom, pulls[i].data)]_vars
    /\ <>[](dom = ServerView)

\* the stream is closed and the page shows a request the server has finished
C18_Witness ==
    /\ sock[ws] = "closed"
    /\ ~connected
    /\ srv.history # <<>>
    /\ dom = ServerView

\* C19: after a call of stopRefresh() (made by disconnectServer() and by
\* logout()) the popup's pull timer is not armed, neither the one whose
\* handle it holds nor any other.
C19_StopTearsDown ==
    [][(Logout \/ Disconnect) => (~refreshInterval' /\ leakedTimers' = 0)]_vars

\* C20: issuing a cancellation request and its answer or failure leave what
\* the dashboard shows and what the popup shows as they were; the pages
\* change only when a pull (or a push message) is delivered.
C20_KillLeavesViewAlone ==
    [][(\/ \E id \in RequestIds : KillRequest(id) \/ PopKillRequest(id)
        \/ \E i \in 1 .. MaxKills : \/ KillAnswered(i) \/ KillFailed(i)
                                     \/ PopKillAnswered(i) \/ PopKillFailed(i))
        => UNCHANGED <<dom, popDom>>]_vars

\* the server has killed the request on the popup's demand while both pages
\* still show it as queued
C20_Witness ==
    /\ IdsOf(srv.history) # {}
    /\ srv.history[1].status = "killed"
    /\ popKills = <<>>
    /\ popPulls # <<>>
    /\ popDom.queue # <<>>
    /\ dom.queue # <<>>

\* C21: a cancellation request that fails, by a rejected fetch or by an
\* answer whose status is not 2xx, is written to the console, and leaves the
\* session, the stored record, the pull timers and the stream as they were.
C21_FailedKillReported ==
    [][\A i \in 1 .. MaxKills :
          (\/ KillFailed(i)
           \/ PopKillFailed(i)
           \/ (i \in DOMAIN kills /\ ~KillAccepted(kills[i]) /\ KillAnswered(i))
           \/ (i \in DOMAIN popKills /\ ~KillAccepted(popKills[i]) /\ PopKillAnswered(i)))
          => /\ killLog' # ""
             /\ UNCHANGED <<config, stored, refreshInterval, leakedTimers, sock, ws,
                            connected, reconnectTimers>>]_vars

\* C22: the login button is disabled exactly from the submit until
\* handleLogin() has returned, by its success path or by its catch; the
\* login request is in flight only while the button is disabled, and while
\* it is disabled no submit starts another handleLogin().
C22_LoginButtonGuardsRequest ==
    /\ loginBtnDisabled <=> loginPc \in {"hash", "fetch", "save"}
    /\ loginReq # <<>> => loginBtnDisabled
    /\ loginBtnDisabled =>
          \A u \in RawUsernames, p \in LoginPasswords, r \in {"true", "false"} :
             ~ENABLED LoginSubmit(u, p, r)

\* a login has failed: its message is shown and the button is enabled again
C22_Witness ==
    /\ loginPc = "returned"
    /\ authError = "Echec de connexion"
    /\ loginPosts = 1
    /\ ~loginBtnDisabled

\* C23: every call that awaits the network ends, whether or not the server
\* answers: the identity check and the refresh of validateCentralToken()
\* return, and a login returns with its button enabled again.
C23_EveryCallEnds ==
    /\ (initPc = "validateMe") ~> (initPc # "validateMe")
    /\ (initPc = "validateRefresh") ~> (initPc # "validateRefresh")
    /\ loginBtnDisabled ~> ~loginBtnDisabled

\* C24: when validateCentralToken() returns false because the access token
\* was rejected and the refresh failed or no refresh token is held, the
\* session in memory and the stored record are cleared.
C24_DeadSessionDestroyed ==
    [][(RefreshFailed \/ (MeRejected /\ ~HasRefresh(config)))
          => (config' = Null /\ stored' = Null)]_vars

\* C25: when init() ends, the view is the authentication view if the stored
\* record holds no session or the session check returned false; else it is
\* the dashboard, with the pull timer armed, if the record holds a server,
\* and the server view without a timer if it holds none.
C25_ColdStartFromRecord ==
    [][(initPc # "done" /\ initPc' = "done") =>
          /\ pview' = IF ~HasToken(stored') \/ ~isValid' THEN "auth-view"
                      ELSE IF HasServer(stored') THEN "dashboard-view"
                      ELSE "server-view"
          /\ refreshInterval' <=> (HasToken(stored') /\ isValid' /\ HasServer(stored'))
          /\ ~HasToken(stored') => ~isValid']_vars

\* the popup has started on a valid stored session with a server: the
\* dashboard is shown and the pull timer armed
C25_Witness ==
    /\ initPc = "done"
    /\ isValid
    /\ HasServer(stored)
    /\ pview = "dashboard-view"
    /\ refreshInterval

\* the first n elements of a list, in their order
RECURSIVE FirstItems(_, _)
FirstItems(list, n) ==
    IF n = 0 \/ list = <<>> THEN <<>>
    ELSE <<Head(list)>> \o FirstItems(Tail(list), n - 1)

\* C26: a list shown by the dashboard is the server's list in the server's
\* order; the popup's queue is the first 10 items of the server's queue in
\* their order and its processing list the server's list; what a pull
\* receives is the server's full list whatever was shown before.
C26_ListsInServerOrder ==
    /\ \A f \in {"queue", "processing", "history"} : dom[f] \in {<<>>, srv[f]}
    /\ popDom.queue \in {<<>>, FirstItems(srv.queue, 10)}
    /\ popDom.processing \in {<<>>, srv.processing}
    /\ \A i \in DOMAIN popPulls :
          \A f \in popPulls[i].got \ {"services", "stats"} : popPulls[i].data[f] = srv[f]
    /\ \A i \in DOMAIN pulls :
          \A f \in pulls[i].got \ {"stats"} : pulls[i].data[f] = srv[f]

\* the popup shows 10 of the server's 11 queued requests and its next pull
\* has received all 11
C26_Witness ==
    /\ Len(srv.queue) > 10
    /\ Len(popDom.queue) = 10
    /\ popDom.queue[1] = srv.queue[1]
    /\ \E i \in DOMAIN popPulls :
          "queue" \in popPulls[i].got /\ Len(popPulls[i].data.queue) = Len(srv.queue)
    /\ dom.queue = srv.queue

\* C27: in what the dashboard shows, no request id appears in two of the
\* lists queue, processing and history, nor twice in one of them.
C27_IdShownOnce ==
    /\ IdsOf(dom.queue) \cap IdsOf(dom.processing) = {}
    /\ IdsOf(dom.queue) \cap IdsOf(dom.history) = {}
    /\ IdsOf(dom.processing) \cap IdsOf(dom.history) = {}
    /\ \A f \in {"queue", "processing", "history"} :
          Cardinality(IdsOf(dom[f])) = Len(dom[f])

\* C28: while a cancellation request for an id is in flight, the page that
\* issued it offers no enabled KILL button for that id.
C28_KillDisablesButton ==
    /\ \A i \in DOMAIN kills : ~KillButton(kills[i])
    /\ \A i \in DOMAIN popKills : ~PopKillButton(popKills[i])

\* C29: once the worker has read the record in which the popup has stored
\* a connected server, the worker holds a server URL to probe.
C29_MonitorProbesConnectedServer ==
    (bgLoaded /\ HasServer(stored) /\ monitorConfig = WorkerView(stored))
        => (monitorConfig # Null /\ monitorConfig[1].host # "")

\* C30: a pull that completes after a pull issued later has completed does
\* not replace what the later pull has shown.
C30_LatestPullWins ==
    [][\A i \in DOMAIN pulls : (pulls[i].stale /\ PullCompleted(i)) => dom' = dom]_vars

\* C31: in the popup at most one pull timer is armed, the one whose handle
\* refreshInterval holds, so that one stopRefresh cancels all of them.
C31_OnePullTimer ==
    (IF refreshInterval THEN 1 ELSE 0) + leakedTimers <= 1

\* C32: the worker has at most one probe timer armed, the one checkInterval
\* names, and none while it holds no configuration record.
C32_OneProbeTimer ==
    /\ bgTimers <= 1
    /\ checkInterval <=> bgTimers = 1
    /\ monitorConfig = Null => bgTimers = 0

\* startMonitoring() has run twice in a row (both of its probes are still
\* in flight) and one timer is armed
C32_Witness ==
    /\ Len(probes) >= 2
    /\ probes[1] = "start" /\ probes[2] = "start"
    /\ checkInterval
    /\ bgTimers = 1

C35_FailedAuthLeavesSession ==
    [][((\E m \in LoginFailures : LoginFailed(m))
          \/ (\E m \in RegisterFailures : RegisterFailed(m)))
       => /\ UNCHANGED <<config, stored, pview>>
          /\ authError' # ""]_vars

\* a registration has failed on the network while the record of an earlier
\* session is persisted, and the authentication view is still shown
C35_Witness ==
    /\ regPc = "returned"
    /\ regPosts = 1
    /\ authError = "Failed to fetch"
    /\ pview = "auth-view"
    /\ stored # Null
    /\ config = stored
====
